---- MODULE Spec2Model ----
(***************************************************************************)
(* Order service of the e-commerce microservices API: the createOrder      *)
(* path (parallel product validation behind the opossum circuit breaker),  *)
(* the order status handlers and the Redis cache-aside accessor.           *)
(*                                                                         *)
(* Prices are integers (minor units); product ids, user ids and order ids  *)
(* are well-formed identifiers.  Timers (breaker resetTimeout, call        *)
(* timeout) are events; their order follows the configured durations.      *)
(***************************************************************************)
EXTENDS Integers, Sequences, FiniteSets, TLC

VARIABLES
    orders,      \* Order collection: sequence of documents, _id = index
    cache,       \* Redis keyspace: function from present keys to values
    cacheUp,     \* TRUE while Redis commands succeed
    breaker,     \* opossum state of each CircuitBreaker instance
    calls,       \* breaker-wrapped calls whose HTTP request is in flight
    productUp,   \* TRUE while the product service answers
    userUp,      \* TRUE while the user service answers
    req          \* request slots: position and locals of each handler run

vars == <<orders, cache, cacheUp, breaker, calls, productUp, userUp, req>>

(***************************************************************************)
(* Bounds of the model.                                                    *)
(***************************************************************************)
MaxOrders == 2        \* documents in the Order collection
MaxSeqOrders == 1     \* the same, where requests run one at a time
MaxScans == 2         \* SCAN commands one delPattern call needs
MaxFires == 11        \* fires counted in one rolling window
MaxInflight == 2      \* HTTP requests in flight per breaker
TickSeconds == 60     \* seconds of one step of the clock

Reqs == {1, 2}        \* request slots: requests handled at the same time

(***************************************************************************)
(* Circuit breaker configuration (circuitBreakerOptions).                  *)
(***************************************************************************)
timeout == 5000
errorThresholdPercentage == 50
resetTimeout == 30000
volumeThreshold == 10

UserBreakerName == "userService"

ProductBreakerNameShared == "userService"

ProductBreakerName == "productService"

BreakerNames == {"userService", "productService"}

(***************************************************************************)
(* Product catalogue held by the product service (GET /products/:id).      *)
(***************************************************************************)
ProductIds == {"p1", "p2"}

Catalog ==
    [p \in ProductIds |->
        IF p = "p1" THEN [_id |-> "p1", name |-> "Widget", price |-> 10, stock |-> 2]
                    ELSE [_id |-> "p2", name |-> "Gadget", price |-> 7, stock |-> 1]]

NoItem == [productId |-> "", productName |-> "", quantity |-> 0, price |-> 0]

NoError == [kind |-> "none", product |-> "", available |-> 0, requested |-> 0]

(***************************************************************************)
(* opossum CircuitBreaker: state, pendingClose and the rolling-window      *)
(* statistics the threshold check reads (stats.fires, stats.failures).     *)
(***************************************************************************)
BreakerInit == [state |-> "closed", pendingClose |-> FALSE, fires |-> 0, failures |-> 0]

\* fire(): the 'fire' event is counted before the open check
BreakerCountFire(b) == [b EXCEPT !.fires = @ + 1]

\* the call is let through when the circuit is closed or a probe is pending
BreakerAdmits(b) == b.state = "closed" \/ b.pendingClose

\* an admitted call consumes the pending probe
BreakerEnter(b) == [b EXCEPT !.pendingClose = FALSE]

BreakerOpen(b) ==
    IF b.state # "open" THEN [b EXCEPT !.state = "open", !.pendingClose = FALSE] ELSE b

BreakerClose(b) ==
    IF b.state # "closed" THEN [b EXCEPT !.state = "closed", !.pendingClose = FALSE] ELSE b

\* on('success'): a success while half-open closes the circuit
BreakerOnSuccessAnyState(b) == BreakerClose(b)

BreakerOnSuccessNeverCloses(b) == b

BreakerOnSuccess(b) == IF b.state = "halfOpen" THEN BreakerClose(b) ELSE b

\* fail(): count the failure, then open when the window holds at least
\* volumeThreshold fires and the error rate exceeds the threshold, or when
\* the failed call was the half-open probe
BreakerOnFailure(b) ==
    LET c == [b EXCEPT !.failures = @ + 1] IN
    IF c.fires < volumeThreshold /\ c.state # "halfOpen" THEN c
    ELSE IF c.failures * 100 > errorThresholdPercentage * c.fires \/ c.state = "halfOpen"
         THEN BreakerOpen(c)
         ELSE c

\* the resetTimeout timer armed by 'open' fires
BreakerOnResetTimeout(b) == [b EXCEPT !.state = "halfOpen", !.pendingClose = TRUE]

(***************************************************************************)
(* In-flight calls.  A call record names its breaker, the request slot and *)
(* line awaiting it (r = 0: nobody awaits the result any more) and the     *)
(* argument of the wrapped function.                                       *)
(***************************************************************************)
InflightOf(name) == Cardinality({k \in 1..Len(calls) : calls[k].b = name})

RemoveAt(s, k) == [j \in 1..(Len(s) - 1) |-> IF j < k THEN s[j] ELSE s[j + 1]]

\* calls of slot r lose their awaiter when Promise.all has already rejected
Orphan(cs, r) == [j \in 1..Len(cs) |-> IF cs[j].r = r THEN [cs[j] EXCEPT !.r = 0] ELSE cs[j]]

\* productServiceBreaker.fire for every line of items.map, in input order
RECURSIVE FireSeq(_, _, _)
FireSeq(b, n, acc) ==
    IF n = 0 THEN [b |-> b, adm |-> acc]
    ELSE LET c == BreakerCountFire(b) IN
         IF BreakerAdmits(c) THEN FireSeq(BreakerEnter(c), n - 1, Append(acc, TRUE))
                             ELSE FireSeq(c, n - 1, Append(acc, FALSE))

(***************************************************************************)
(* Errors.  getProduct's catch logs the breaker's error (cause) and throws *)
(* Error(`Product not found: ${productId}`) in its place.                  *)
(***************************************************************************)
ProductNotFound(productId) ==
    [kind |-> "Product not found", product |-> productId, available |-> 0, requested |-> 0]

getProductError(cause, productId) == ProductNotFound(productId)

InsufficientStock(product, quantity) ==
    [kind |-> "Insufficient stock", product |-> product.name,
     available |-> product.stock, requested |-> quantity]

ValidationError ==
    [kind |-> "ValidationError", product |-> "", available |-> 0, requested |-> 0]

InvalidOrderData ==
    [kind |-> "Invalid order data", product |-> "", available |-> 0, requested |-> 0]

(***************************************************************************)
(* Responses and request slots.                                            *)
(***************************************************************************)
NoResp == [status |-> 0, error |-> NoError, data |-> <<>>, cached |-> FALSE]

ErrorResp(code, err) == [status |-> code, error |-> err, data |-> <<>>, cached |-> FALSE]

DataResp(code, d, c) == [status |-> code, error |-> NoError, data |-> d, cached |-> c]

NoLine == [st |-> "pending", item |-> NoItem, cause |-> "none"]

\* locals of a running cache.delPattern: the cursor, the keys of the last
\* SCAN reply still to delete, deletedCount, the value returned; with what
\* Redis has yet to report (unseen) and the keys matching at the first SCAN
ScanInit ==
    [cursor |-> "0", calls |-> 0, keys |-> {}, deletedCount |-> 0, ret |-> 0,
     failed |-> FALSE, unseen |-> {}, began |-> {}]

\* locals of a running makeRequest of the gateway: the loop variable, the
\* retries argument, the axios calls issued, the backoff delays waited, the
\* errors caught, and how the call ended (returned / threw, with what)
MakeRequestInit ==
    [attempt |-> 0, retries |-> 0, issued |-> 0, waits |-> <<>>, errors |-> <<>>,
     result |-> "none", value |-> ""]

\* the gateway request a makeRequest call serves, if any: the responses
\* written to res, and whether the handler's promise rejected
RouteInit == [route |-> FALSE, sent |-> <<>>, rejected |-> FALSE]

\* authenticateToken / logout of the user service: the bearer token, the
\* jwt.verify calls made, and whether next() was called
AuthInit == [token |-> "", verifyCalls |-> 0, next |-> FALSE]

IdleReq ==
    [pc |-> "idle", kind |-> "none", userId |-> "", items |-> <<>>, lines |-> <<>>,
     total |-> 0, id |-> 0, status |-> "", query |-> <<>>, doc |-> <<>>,
     cacheOk |-> FALSE, cacheErr |-> FALSE, scan |-> ScanInit, mr |-> MakeRequestInit, gw |-> RouteInit, auth |-> AuthInit,
     resp |-> NoResp]

Finish(q, response) == [q EXCEPT !.pc = "done", !.resp = response]

Free(r) == req[r].pc \in {"idle", "done"}

(***************************************************************************)
(* Cache accessor (cache.get / set / del / delPattern over ioredis).       *)
(* A key is the sequence of its ':'-separated segments.                    *)
(***************************************************************************)
UserOrdersKey(userId) == <<"orders", "user", userId>>

AllOrdersPattern == <<"orders", "all">>

\* 'orders:all:*' : the prefix followed by any characters
MatchesAnyKey(pattern, key) == TRUE

Matches(pattern, key) ==
    /\ Len(key) > Len(pattern)
    /\ \A j \in 1..Len(pattern) : key[j] = pattern[j]

Without(f, ks) == [k \in (DOMAIN f) \ ks |-> f[k]]

With(f, key, v) == [k \in (DOMAIN f) \cup {key} |-> IF k = key THEN v ELSE f[k]]

\* JSON.stringify followed by JSON.parse: an ObjectId comes back as a string
Json(doc) == IF "oid" \in DOMAIN doc._id THEN [doc EXCEPT !._id = [str |-> @.oid]] ELSE doc

JsonAll(docs) == [j \in 1..Len(docs) |-> Json(docs[j])]

\* JSON text of a listing result
JsonResult(result) == [result EXCEPT !.orders = JsonAll(@)]

\* JSON.stringify(data), data being the list of objects handed over: order
\* documents, listing results or line items
JSON_stringify(data) ==
    [j \in 1..Len(data) |->
        IF "_id" \in DOMAIN data[j] THEN Json(data[j])
        ELSE IF "orders" \in DOMAIN data[j] THEN JsonResult(data[j])
        ELSE data[j]]

\* Each accessor catches the store's error: threw is what reaches the
\* caller's try block, ret the returned value, store the keyspace afterwards.
cache_getRethrows(key) ==
    [threw |-> ~cacheUp, null |-> TRUE, value |-> <<>>]

cache_get(key) ==
    IF cacheUp /\ key \in DOMAIN cache
    THEN [threw |-> FALSE, null |-> FALSE, value |-> cache[key].json]
    ELSE [threw |-> FALSE, null |-> TRUE, value |-> <<>>]

\* redis.setex(key, ttlSeconds, JSON.stringify(data))
cache_setRaw(key, data, ttlSeconds) ==
    IF cacheUp
    THEN [threw |-> FALSE, ret |-> TRUE,
          store |-> With(cache, key, [json |-> data, ttl |-> ttlSeconds])]
    ELSE [threw |-> FALSE, ret |-> FALSE, store |-> cache]

cache_set(key, data, ttlSeconds) ==
    IF cacheUp
    THEN [threw |-> FALSE, ret |-> TRUE,
          store |-> With(cache, key, [json |-> JSON_stringify(data), ttl |-> ttlSeconds])]
    ELSE [threw |-> FALSE, ret |-> FALSE, store |-> cache]

cache_del(key) ==
    IF cacheUp THEN [threw |-> FALSE, ret |-> TRUE, store |-> Without(cache, {key})]
               ELSE [threw |-> FALSE, ret |-> FALSE, store |-> cache]

cache_delPattern(pattern) ==
    LET keys == {k \in DOMAIN cache : Matches(pattern, k)} IN
    IF cacheUp THEN [threw |-> FALSE, ret |-> Cardinality(keys), store |-> Without(cache, keys)]
               ELSE [threw |-> FALSE, ret |-> 0, store |-> cache]

InternalServerError ==
    [kind |-> "Internal server error", product |-> "", available |-> 0, requested |-> 0]

\* a cache command of request q ran: note whether its store error was logged
Logged(q, up) == IF up THEN [q EXCEPT !.cacheOk = TRUE] ELSE [q EXCEPT !.cacheErr = TRUE]

(***************************************************************************)
(* createOrder and validateProductsParallel.                               *)
(***************************************************************************)
RECURSIVE Sum(_, _)
Sum(f, n) == IF n = 0 THEN 0 ELSE f[n] + Sum(f, n - 1)

\* validatedItems.reduce((total, item) => total + item.price * item.quantity, 0)
totalAmountPriceOnly(validatedItems) ==
    Sum([j \in 1..Len(validatedItems) |-> validatedItems[j].price], Len(validatedItems))

totalAmount(validatedItems) ==
    Sum([j \in 1..Len(validatedItems) |-> validatedItems[j].price * validatedItems[j].quantity],
        Len(validatedItems))

\* const validatedItems = await Promise.all(productPromises)
validatedItemsNewestFirst(q) == [j \in 1..Len(q.lines) |-> q.lines[Len(q.lines) + 1 - j].item]

validatedItemsOf(q) == [j \in 1..Len(q.lines) |-> q.lines[j].item]

AllLinesOk(q) == \A j \in 1..Len(q.lines) : q.lines[j].st = "ok"

AnyLineFailed(q) == \E j \in 1..Len(q.lines) : q.lines[j].st = "failed"

\* the item callback of validateProductsParallel after getProduct returned
StockCheckSkipped(product, item) == TRUE

StockCheck(product, item) == ~(product.stock < item.quantity)

\* continuation of line i of request q once its getProduct call has settled
LineSettled(q, i, outcome, arg) ==
    IF outcome = "ok"
    THEN LET product == Catalog[arg]
             item == q.items[i] IN
         IF ~StockCheck(product, item)
         THEN Finish([q EXCEPT !.lines[i] = [NoLine EXCEPT !.st = "failed"]],
                     ErrorResp(500, InsufficientStock(product, item.quantity)))
         ELSE LET q2 == [q EXCEPT !.lines[i] =
                            [st |-> "ok", cause |-> "none",
                             item |-> [productId |-> product._id, productName |-> product.name,
                                       quantity |-> item.quantity, price |-> product.price]]] IN
              IF AllLinesOk(q2)
              THEN [q2 EXCEPT !.pc = "save", !.total = totalAmount(validatedItemsOf(q2))]
              ELSE q2
    ELSE Finish([q EXCEPT !.lines[i] = [NoLine EXCEPT !.st = "failed", !.cause = outcome]],
                ErrorResp(500, getProductError(outcome, arg)))

\* !userId || !items || !Array.isArray(items) || items.length === 0
InvalidBodyUserOnly(body) == body.userId = ""

InvalidBody(body) == body.userId = "" \/ ~body.isArray \/ Len(body.items) = 0

createOrder(r, body) ==
    /\ Free(r)
    /\ LET q == [IdleReq EXCEPT !.kind = "createOrder", !.userId = body.userId,
                                !.items = body.items] IN
       IF InvalidBody(body)
       THEN /\ req' = [req EXCEPT ![r] = Finish(q, ErrorResp(400, InvalidOrderData))]
            /\ UNCHANGED <<breaker, calls>>
       ELSE LET n == Len(body.items)
                f == FireSeq(breaker[ProductBreakerName], n, <<>>)
                issued == SelectSeq([j \in 1..n |-> [b |-> ProductBreakerName, r |-> r, i |-> j,
                                                     arg |-> body.items[j].productId]],
                                    LAMBDA c : f.adm[c.i])
                rejected == {j \in 1..n : ~f.adm[j]}
                q1 == [q EXCEPT !.pc = "validating", !.lines = [j \in 1..n |-> NoLine]] IN
            /\ breaker' = [breaker EXCEPT ![ProductBreakerName] = f.b]
            /\ IF rejected = {}
               THEN /\ calls' = calls \o issued
                    /\ req' = [req EXCEPT ![r] = q1]
               ELSE LET first == CHOOSE j \in rejected : \A j2 \in rejected : j <= j2 IN
                    /\ calls' = Orphan(calls \o issued, r)
                    /\ req' = [req EXCEPT ![r] =
                                 LineSettled(q1, first, "EOPENBREAKER", body.items[first].productId)]
    /\ UNCHANGED <<orders, cache, cacheUp, productUp, userUp>>

\* outcomes the product service can give to GET /products/:id
ProductOutcomes(arg) ==
    IF productUp THEN (IF arg \in ProductIds THEN {"ok"} ELSE {"ENOTFOUND404"})
                 ELSE {"ECONNREFUSED", "ETIMEDOUT"}

\* the HTTP request of call k settles: breaker accounting, getProduct's
\* catch, the awaiting line of validateProductsParallel and Promise.all
getProductFn(k, outcome) ==
    /\ k \in 1..Len(calls)
    /\ calls[k].b = ProductBreakerName
    /\ outcome \in ProductOutcomes(calls[k].arg)
    /\ LET c == calls[k]
           rest == RemoveAt(calls, k) IN
       /\ breaker' = [breaker EXCEPT ![c.b] =
                        IF outcome = "ok" THEN BreakerOnSuccess(@) ELSE BreakerOnFailure(@)]
       /\ IF c.r = 0
          THEN /\ calls' = rest
               /\ UNCHANGED req
          ELSE LET q2 == LineSettled(req[c.r], c.i, outcome, c.arg) IN
               /\ req' = [req EXCEPT ![c.r] = q2]
               /\ calls' = IF q2.pc = "done" THEN Orphan(rest, c.r) ELSE rest
    /\ UNCHANGED <<orders, cache, cacheUp, productUp, userUp>>

(***************************************************************************)
(* The two validators as functions of the breaker they start with, the     *)
(* items, and the product service as it is (productUp, Catalog).           *)
(***************************************************************************)
validatedItem(product, item) ==
    [productId |-> product._id, productName |-> product.name,
     quantity |-> item.quantity, price |-> product.price]

NotValidated(b) == [ok |-> FALSE, items |-> <<>>, b |-> b]

\* validateProductsParallel: items.map fires every call at once, Promise.all
\* rejects with the first line that fails
validateProductsParallel(b, items) ==
    LET n == Len(items)
        f == FireSeq(b, n, <<>>) IN
    IF \E j \in 1..n : ~f.adm[j] THEN NotValidated(f.b)
    ELSE IF \A j \in 1..n : /\ ProductOutcomes(items[j].productId) = {"ok"}
                            /\ StockCheck(Catalog[items[j].productId], items[j])
    THEN [ok |-> TRUE, b |-> f.b,
          items |-> [j \in 1..n |-> validatedItem(Catalog[items[j].productId], items[j])]]
    ELSE NotValidated(f.b)

RECURSIVE validateProductsUnshift(_, _, _, _)
RECURSIVE validateProducts(_, _, _, _)
\* validateProducts, the legacy loop: for (const item of items) { await
\* getProduct; stock check; validatedItems.push }, line i onwards
validateProductsUnshift(b, items, i, acc) ==
    IF i > Len(items) THEN [ok |-> TRUE, items |-> acc, b |-> b]
    ELSE LET c == BreakerCountFire(b) IN
         IF ~BreakerAdmits(c) THEN NotValidated(c)
         ELSE IF ProductOutcomes(items[i].productId) # {"ok"}
         THEN NotValidated(BreakerOnFailure(BreakerEnter(c)))
         ELSE LET product == Catalog[items[i].productId]
                  b1 == BreakerOnSuccess(BreakerEnter(c)) IN
              IF ~StockCheck(product, items[i]) THEN NotValidated(b1)
              ELSE validateProductsUnshift(b1, items, i + 1,
                                           <<validatedItem(product, items[i])>> \o acc)

validateProducts(b, items, i, acc) ==
    IF i > Len(items) THEN [ok |-> TRUE, items |-> acc, b |-> b]
    ELSE LET c == BreakerCountFire(b) IN
         IF ~BreakerAdmits(c) THEN NotValidated(c)
         ELSE IF ProductOutcomes(items[i].productId) # {"ok"}
         THEN NotValidated(BreakerOnFailure(BreakerEnter(c)))
         ELSE LET product == Catalog[items[i].productId]
                  b1 == BreakerOnSuccess(BreakerEnter(c)) IN
              IF ~StockCheck(product, items[i]) THEN NotValidated(b1)
              ELSE validateProducts(b1, items, i + 1,
                                    Append(acc, validatedItem(product, items[i])))

\* mongoose validation of the Order schema run by order.save()
SchemaValid(doc) ==
    /\ doc.userId # ""
    /\ doc.totalAmount >= 0
    /\ \A j \in 1..Len(doc.items) :
          /\ doc.items[j].productId # ""
          /\ doc.items[j].productName # ""
          /\ doc.items[j].quantity >= 1
          /\ doc.items[j].price >= 0

NewOrder(q) ==
    [_id |-> [oid |-> Len(orders) + 1], userId |-> q.userId, items |-> validatedItemsOf(q),
     totalAmount |-> q.total, status |-> "pending"]

createOrder_save(r) ==
    /\ req[r].kind = "createOrder" /\ req[r].pc = "save"
    /\ LET doc == NewOrder(req[r]) IN
       IF SchemaValid(doc)
       THEN /\ orders' = Append(orders, doc)
            /\ req' = [req EXCEPT ![r] = [@ EXCEPT !.pc = "invalidateUser", !.doc = <<doc>>]]
       ELSE /\ req' = [req EXCEPT ![r] = Finish(@, ErrorResp(500, ValidationError))]
            /\ UNCHANGED orders
    /\ UNCHANGED <<cache, cacheUp, breaker, calls, productUp, userUp>>

\* one cache command of handler `kind` at position `at`: the keyspace
\* after it, the request moved to `next` (the catch block's 500 if the
\* accessor threw)
Invalidate(r, kind, at, res, next) ==
    /\ req[r].kind = kind /\ req[r].pc = at
    /\ cache' = res.store
    /\ req' = [req EXCEPT ![r] =
                 IF res.threw THEN Finish(Logged(@, cacheUp), ErrorResp(500, InternalServerError))
                 ELSE Logged(next, cacheUp)]
    /\ UNCHANGED <<orders, cacheUp, breaker, calls, productUp, userUp>>

createOrder_invalidateUser(r) ==
    Invalidate(r, "createOrder", "invalidateUser", cache_del(UserOrdersKey(req[r].userId)),
               [req[r] EXCEPT !.pc = "invalidateAll"])

createOrder_invalidateAll(r) ==
    Invalidate(r, "createOrder", "invalidateAll", cache_delPattern(AllOrdersPattern),
               Finish(req[r], DataResp(201, JsonAll(req[r].doc), FALSE)))

(***************************************************************************)
(* Reads of the Order collection and the cache-aside steps the read        *)
(* handlers share.                                                         *)
(***************************************************************************)
OrderNotFound ==
    [kind |-> "Order not found", product |-> "", available |-> 0, requested |-> 0]

InvalidStatus ==
    [kind |-> "Invalid status", product |-> "", available |-> 0, requested |-> 0]

CannotCancel ==
    [kind |-> "Cannot cancel order in current status", product |-> "",
     available |-> 0, requested |-> 0]

CACHE_TTL_Long == [USER_ORDERS |-> 120, SINGLE_ORDER |-> 600, ALL_ORDERS |-> 60]

CACHE_TTL == [USER_ORDERS |-> 120, SINGLE_ORDER |-> 300, ALL_ORDERS |-> 60]

OrderKey(id) == <<"order", ToString(id)>>

OrderItemsKey(id) == <<"order", ToString(id), "items">>

\* Order.findById(id): the documents found (none: null)
findById(id) == IF id \in 1..Len(orders) THEN <<orders[id]>> ELSE <<>>

\* const cached = await cache.get(cacheKey); if (cached) return res.json(..)
CacheLookup(r, q, key) ==
    /\ Free(r)
    /\ LET g == cache_get(key)
           q1 == Logged(q, cacheUp) IN
       req' = [req EXCEPT ![r] =
                 IF g.threw THEN Finish(q1, ErrorResp(500, InternalServerError))
                 ELSE IF ~g.null THEN Finish(q1, DataResp(200, g.value, TRUE))
                 ELSE [q1 EXCEPT !.pc = "find"]]
    /\ UNCHANGED <<orders, cache, cacheUp, breaker, calls, productUp, userUp>>

\* const order = await Order.findById(id)...lean(); if (!order) return 404
FindOne(r, kind) ==
    /\ req[r].kind = kind /\ req[r].pc = "find"
    /\ LET found == findById(req[r].id) IN
       req' = [req EXCEPT ![r] =
                 IF found = <<>> THEN Finish(@, ErrorResp(404, OrderNotFound))
                 ELSE [@ EXCEPT !.pc = "set", !.doc = found]]
    /\ UNCHANGED <<orders, cache, cacheUp, breaker, calls, productUp, userUp>>

\* await cache.set(cacheKey, data, ttl); res.json({.., cached: false})
CacheStore(r, kind, key, data, ttl) ==
    /\ req[r].kind = kind /\ req[r].pc = "set"
    /\ LET s == cache_set(key, data, ttl)
           q1 == Logged(req[r], cacheUp) IN
       /\ cache' = s.store
       /\ req' = [req EXCEPT ![r] =
                    IF s.threw THEN Finish(q1, ErrorResp(500, InternalServerError))
                    ELSE Finish(q1, DataResp(200, JSON_stringify(data), FALSE))]
    /\ UNCHANGED <<orders, cacheUp, breaker, calls, productUp, userUp>>

getOrderById(r, id) ==
    CacheLookup(r, [IdleReq EXCEPT !.kind = "getOrderById", !.id = id], OrderKey(id))

getOrderById_find(r) == FindOne(r, "getOrderById")

getOrderById_set(r) ==
    CacheStore(r, "getOrderById", OrderKey(req[r].id), req[r].doc, CACHE_TTL.SINGLE_ORDER)

getOrderItems(r, id) ==
    CacheLookup(r, [IdleReq EXCEPT !.kind = "getOrderItems", !.id = id], OrderItemsKey(id))

getOrderItems_find(r) == FindOne(r, "getOrderItems")

getOrderItems_set(r) ==
    CacheStore(r, "getOrderItems", OrderItemsKey(req[r].id), req[r].doc[1].items,
               CACHE_TTL.SINGLE_ORDER)

(***************************************************************************)
(* Listings: getAllOrders and getOrdersByUser.  A query is a record of the *)
(* parameters the client sent; an absent parameter is an absent field.     *)
(***************************************************************************)
Min(a, b) == IF a < b THEN a ELSE b

Reverse(s) == [j \in 1..Len(s) |-> s[Len(s) + 1 - j]]

\* const { page = 1 } = req.query; parseInt(page)
pageNumOf(query) == IF "page" \in DOMAIN query THEN query.page ELSE 1

\* Math.min(parseInt(limit) || 20, cap)
limitNumOf(query, cap) ==
    Min(IF "limit" \in DOMAIN query /\ query.limit # 0 THEN query.limit ELSE 20, cap)

\* a query parameter that is present and not the empty string
Given(query, name) == name \in DOMAIN query /\ query[name] # ""

\* `orders:all:${userId || 'all'}:${status || 'all'}:${pageNum}:${limitNum}`
AllOrdersKey(query) ==
    <<"orders", "all",
      IF Given(query, "userId") THEN query.userId ELSE "all",
      IF Given(query, "status") THEN query.status ELSE "all",
      ToString(pageNumOf(query)), ToString(limitNumOf(query, 100))>>

\* `orders:user:${userId}:${pageNum}:${limitNum}`
UserOrdersPageKey(userId, query) ==
    <<"orders", "user", userId, ToString(pageNumOf(query)), ToString(limitNumOf(query, 50))>>

\* Order.find(filter).sort(..).skip(..).limit(..) with
\* Order.countDocuments(filter), over the documents `all` the filter selects
findPage(all, pageNum, limitNum) ==
    LET total == Len(all) IN
    [orders |-> SubSeq(all, (pageNum - 1) * limitNum + 1, Min(total, pageNum * limitNum)),
     pagination |-> [page |-> pageNum, limit |-> limitNum, total |-> total,
                     pages |-> (total + limitNum - 1) \div limitNum]]

getAllOrders(r, query) ==
    CacheLookup(r, [IdleReq EXCEPT !.kind = "getAllOrders", !.query = query],
                AllOrdersKey(query))

getAllOrders_find(r) ==
    /\ req[r].kind = "getAllOrders" /\ req[r].pc = "find"
    /\ LET query == req[r].query
           matching(o) == /\ Given(query, "userId") => o.userId = query.userId
                          /\ Given(query, "status") => o.status = query.status
           result == findPage(SelectSeq(Reverse(orders), matching), pageNumOf(query),
                              limitNumOf(query, 100)) IN
       req' = [req EXCEPT ![r] = [@ EXCEPT !.pc = "set", !.doc = <<result>>]]
    /\ UNCHANGED <<orders, cache, cacheUp, breaker, calls, productUp, userUp>>

getAllOrders_set(r) ==
    CacheStore(r, "getAllOrders", AllOrdersKey(req[r].query), req[r].doc,
               CACHE_TTL.ALL_ORDERS)

getOrdersByUser(r, userId, query) ==
    CacheLookup(r, [IdleReq EXCEPT !.kind = "getOrdersByUser", !.userId = userId,
                                   !.query = query],
                UserOrdersPageKey(userId, query))

getOrdersByUser_find(r) ==
    /\ req[r].kind = "getOrdersByUser" /\ req[r].pc = "find"
    /\ LET query == req[r].query
           matching(o) == o.userId = req[r].userId
           page == findPage(SelectSeq(Reverse(orders), matching), pageNumOf(query),
                            limitNumOf(query, 50))
           result == [orders |-> page.orders, userId |-> req[r].userId,
                      pagination |-> page.pagination] IN
       req' = [req EXCEPT ![r] = [@ EXCEPT !.pc = "set", !.doc = <<result>>]]
    /\ UNCHANGED <<orders, cache, cacheUp, breaker, calls, productUp, userUp>>

getOrdersByUser_set(r) ==
    CacheStore(r, "getOrdersByUser", UserOrdersPageKey(req[r].userId, req[r].query),
               req[r].doc, CACHE_TTL.USER_ORDERS)

(***************************************************************************)
(* updateOrderStatus and cancelOrder.                                      *)
(***************************************************************************)
validStatusesOrAny == {"pending", "confirmed", "shipped", "delivered", "cancelled", "refunded", ""}

validStatuses == {"pending", "confirmed", "shipped", "delivered", "cancelled"}

\* statuses cancelOrder accepts
cancellableAll == validStatuses

cancellable == {"pending", "confirmed"}

\* Order.findByIdAndUpdate(id, { status }, { new: true }): one atomic write
\* that touches no other field
withStatusUnlessFinal(order, status) ==
    IF order.status \in {"delivered", "cancelled"} THEN order ELSE [order EXCEPT !.status = status]

withStatus(order, status) == [order EXCEPT !.status = status]

updateOrderStatus(r, id, status) ==
    /\ Free(r)
    /\ LET q == [IdleReq EXCEPT !.kind = "updateOrderStatus", !.id = id, !.status = status]
           found == findById(id) IN
       IF status \notin validStatuses
       THEN /\ req' = [req EXCEPT ![r] = Finish(q, ErrorResp(400, InvalidStatus))]
            /\ UNCHANGED orders
       ELSE IF found = <<>>
       THEN /\ req' = [req EXCEPT ![r] = Finish(q, ErrorResp(404, OrderNotFound))]
            /\ UNCHANGED orders
       ELSE LET order == withStatus(found[1], status) IN
            /\ orders' = [orders EXCEPT ![id] = order]
            /\ req' = [req EXCEPT ![r] = [q EXCEPT !.pc = "delOrder", !.doc = <<order>>]]
    /\ UNCHANGED <<cache, cacheUp, breaker, calls, productUp, userUp>>

\* findById, then the status check on the document read
cancelOrder(r, id) ==
    /\ Free(r)
    /\ LET q == [IdleReq EXCEPT !.kind = "cancelOrder", !.id = id]
           found == findById(id) IN
       req' = [req EXCEPT ![r] =
                 IF found = <<>> THEN Finish(q, ErrorResp(404, OrderNotFound))
                 ELSE IF found[1].status \notin cancellable
                 THEN Finish(q, ErrorResp(400, CannotCancel))
                 ELSE [q EXCEPT !.pc = "save", !.doc = <<withStatus(found[1], "cancelled")>>]]
    /\ UNCHANGED <<orders, cache, cacheUp, breaker, calls, productUp, userUp>>

\* order.save(): writes the modified path (status) of the document
cancelOrder_save(r) ==
    /\ req[r].kind = "cancelOrder" /\ req[r].pc = "save"
    /\ orders' = [orders EXCEPT ![req[r].id] = withStatus(@, "cancelled")]
    /\ req' = [req EXCEPT ![r] = [@ EXCEPT !.pc = "delOrder"]]
    /\ UNCHANGED <<cache, cacheUp, breaker, calls, productUp, userUp>>

\* the three invalidations after a status write, shared by both handlers
statusChange_delOrder(r) ==
    /\ req[r].kind \in {"updateOrderStatus", "cancelOrder"}
    /\ Invalidate(r, req[r].kind, "delOrder", cache_del(OrderKey(req[r].id)),
                  [req[r] EXCEPT !.pc = "delUser"])

statusChange_delUser(r) ==
    /\ req[r].kind \in {"updateOrderStatus", "cancelOrder"}
    /\ Invalidate(r, req[r].kind, "delUser", cache_del(UserOrdersKey(req[r].doc[1].userId)),
                  [req[r] EXCEPT !.pc = "delAll"])

statusChange_delAll(r) ==
    /\ req[r].kind \in {"updateOrderStatus", "cancelOrder"}
    /\ Invalidate(r, req[r].kind, "delAll", cache_delPattern(AllOrdersPattern),
                  Finish(req[r], DataResp(200, JsonAll(req[r].doc), FALSE)))

(***************************************************************************)
(* cache.delPattern command by command: the SCAN / DEL loop of the         *)
(* invalidation that ends createOrder, updateOrderStatus and cancelOrder.  *)
(* A SCAN reply holds any of the matching keys; Redis ends the iteration   *)
(* (cursor "0") only when every key present since the first SCAN has been  *)
(* reported.                                                               *)
(***************************************************************************)
\* delPattern returns n to the handler, which sends its response
delPattern_return(q, n, failed) ==
    LET q1 == Logged([q EXCEPT !.scan.ret = n, !.scan.failed = failed], ~failed) IN
    Finish(q1, DataResp(IF q.kind = "createOrder" THEN 201 ELSE 200, JsonAll(q.doc), FALSE))

\* const [newCursor, keys] = await redis.scan(cursor, 'MATCH', pattern, ..)
delPattern_scan(r, reply, newCursor) ==
    /\ req[r].pc \in {"invalidateAll", "delAll"}
    /\ req[r].scan.keys = {}
    /\ LET sc == req[r].scan
           matching == {k \in DOMAIN cache : Matches(AllOrdersPattern, k)}
           left == (IF sc.calls = 0 THEN matching ELSE sc.unseen \cap DOMAIN cache) \ reply
           sc1 == [sc EXCEPT !.calls = @ + 1, !.cursor = newCursor, !.keys = reply,
                             !.unseen = left,
                             !.began = IF sc.calls = 0 THEN matching ELSE @] IN
       IF ~cacheUp
       THEN req' = [req EXCEPT ![r] = delPattern_return(@, 0, TRUE)]
       ELSE /\ reply \subseteq matching
            /\ newCursor = "0" => left = {}
            /\ sc1.calls = MaxScans => newCursor = "0"
            /\ req' = [req EXCEPT ![r] =
                         IF reply = {} /\ newCursor = "0"
                         THEN delPattern_return([@ EXCEPT !.scan = sc1], sc1.deletedCount, FALSE)
                         ELSE [@ EXCEPT !.scan = sc1]]
    /\ UNCHANGED <<orders, cache, cacheUp, breaker, calls, productUp, userUp>>

\* await redis.del(...keys); deletedCount += keys.length; while (cursor !== '0')
delPattern_del(r) ==
    /\ req[r].pc \in {"invalidateAll", "delAll"}
    /\ req[r].scan.keys # {}
    /\ LET sc == req[r].scan
           sc1 == [sc EXCEPT !.keys = {}, !.deletedCount = @ + Cardinality(sc.keys)] IN
       IF ~cacheUp
       THEN /\ req' = [req EXCEPT ![r] = delPattern_return(@, 0, TRUE)]
            /\ UNCHANGED cache
       ELSE /\ cache' = Without(cache, sc.keys)
            /\ req' = [req EXCEPT ![r] =
                         IF sc.cursor = "0"
                         THEN delPattern_return([@ EXCEPT !.scan = sc1], sc1.deletedCount, FALSE)
                         ELSE [@ EXCEPT !.scan = sc1]]
    /\ UNCHANGED <<orders, cacheUp, breaker, calls, productUp, userUp>>

(***************************************************************************)
(* API gateway: makeRequest, the axios call with retries and backoff.      *)
(***************************************************************************)
defaultRetries == 2

\* Math.pow(2, attempt) * 100
backoffDelay(attempt) == (2 ^ attempt) * 100

\* if (attempt === retries) throw error
LastAttemptNever(attempt, retries) == FALSE

LastAttempt(attempt, retries) == attempt = retries

\* what axios gives for one attempt: a 2xx response, or a rejection (other
\* status, refused connection, or no response within the 10 s timeout)
AxiosOutcomes(service) ==
    IF (service = "user" /\ userUp) \/ (service = "product" /\ productUp)
    THEN {"200", "400"}
    ELSE {"ECONNREFUSED", "ECONNABORTED"}

\* where the caller of makeRequest resumes: the route handler, if any
makeRequestEnds(q) == IF q.gw.route THEN "respond" ELSE "done"

\* makeRequest(url, options, retries): attempt = 0 and the first axios call
makeRequest(r, service, retries) ==
    /\ Free(r)
    /\ req' = [req EXCEPT ![r] =
                 [IdleReq EXCEPT !.kind = "makeRequest", !.pc = "axios", !.userId = service,
                                 !.mr.retries = retries, !.mr.issued = 1]]
    /\ UNCHANGED <<orders, cache, cacheUp, breaker, calls, productUp, userUp>>

\* the axios call settles: return response, or the catch block
makeRequest_axios(r, outcome) ==
    /\ req[r].kind = "makeRequest" /\ req[r].pc = "axios"
    /\ outcome \in AxiosOutcomes(req[r].userId)
    /\ LET m == req[r].mr IN
       req' = [req EXCEPT ![r] =
                 IF outcome = "200"
                 THEN [@ EXCEPT !.pc = makeRequestEnds(req[r]), !.mr.result = "returned",
                                !.mr.value = outcome]
                 ELSE IF LastAttempt(m.attempt, m.retries)
                 THEN [@ EXCEPT !.pc = makeRequestEnds(req[r]), !.mr.errors = Append(@, outcome),
                                !.mr.result = "threw", !.mr.value = outcome]
                 ELSE [@ EXCEPT !.pc = "backoff", !.mr.errors = Append(@, outcome)]]
    /\ UNCHANGED <<orders, cache, cacheUp, breaker, calls, productUp, userUp>>

\* the backoff timer fires: attempt++, and the next axios call while
\* attempt <= retries (the function returns undefined when the loop ends)
makeRequest_backoff(r) ==
    /\ req[r].kind = "makeRequest" /\ req[r].pc = "backoff"
    /\ LET m == req[r].mr
           m1 == [m EXCEPT !.waits = Append(@, backoffDelay(m.attempt)), !.attempt = @ + 1] IN
       req' = [req EXCEPT ![r] =
                 IF m1.attempt <= m1.retries
                 THEN [@ EXCEPT !.pc = "axios", !.mr = [m1 EXCEPT !.issued = @ + 1]]
                 ELSE [@ EXCEPT !.pc = makeRequestEnds(req[r]),
                                !.mr = [m1 EXCEPT !.result = "returned", !.value = "undefined"]]]
    /\ UNCHANGED <<orders, cache, cacheUp, breaker, calls, productUp, userUp>>

(***************************************************************************)
(* API gateway: the route handlers around makeRequest, and the response    *)
(* timeout middleware.                                                     *)
(***************************************************************************)
axiosTimeout == 10000

responseTimeout == 30000

\* error.response of an axios rejection: set when the service answered
HasResponse(e) == e = "400"

\* the status and body the service sent with outcome o
DownstreamResponse(o) == [status |-> IF o = "200" THEN 200 ELSE 400, data |-> <<"data", o>>]

Unavailable(service) ==
    IF service = "user" THEN [error |-> "Authentication service unavailable"]
    ELSE [error |-> "Product service unavailable"]

\* res.status(s).json(b): send() sets headers, which throws
\* ERR_HTTP_HEADERS_SENT once a response has been written
res_jsonAlways(q, status, body) ==
    [q EXCEPT !.gw.sent = Append(@, [status |-> status, body |-> body])]

res_json(q, status, body) ==
    IF Len(q.gw.sent) > 0
    THEN [q EXCEPT !.gw.rejected = TRUE]
    ELSE [q EXCEPT !.gw.sent = Append(@, [status |-> status, body |-> body])]

\* the longest the call can have been running: every attempt issued lasted
\* axiosTimeout, plus the waits
MaxElapsed(m) == m.issued * axiosTimeout + Sum(m.waits, Len(m.waits))

\* app.post('/api/auth/register' | '/api/auth/login'), app.get / app.post
\* ('/api/products'): makeRequest(url, options) with the default retries
gatewayRoute(r, service) ==
    /\ Free(r)
    /\ req' = [req EXCEPT ![r] =
                 [IdleReq EXCEPT !.kind = "makeRequest", !.pc = "axios", !.userId = service,
                                 !.mr.retries = defaultRetries, !.mr.issued = 1,
                                 !.gw.route = TRUE]]
    /\ UNCHANGED <<orders, cache, cacheUp, breaker, calls, productUp, userUp>>

\* the process ends (an unhandled rejection under Express 4 on Node 18, the
\* runtime the README names): the requests in flight are dropped unanswered
processExit(rq, r) ==
    [s \in Reqs |->
       IF s # r /\ rq[s].kind = "makeRequest" /\ rq[s].pc \notin {"idle", "done"}
       THEN [rq[s] EXCEPT !.pc = "done"]
       ELSE rq[s]]

\* res.json(response.data), or in the catch block
\* res.status(error.response?.status || 500).json(error.response?.data || {...});
\* a throw of res.json in the try block lands in the catch block, whose
\* res.json throws again, and the promise of the async handler rejects.
\* Nothing in the source handles that rejection: whether the process
\* survives it depends on the Express and Node versions (exits)
gatewayRoute_respond(r, exits) ==
    /\ req[r].kind = "makeRequest" /\ req[r].pc = "respond"
    /\ exits => Len(req[r].gw.sent) > 0
    /\ LET m == req[r].mr
           q == [req[r] EXCEPT !.pc = "done"]
           answered ==
              [req EXCEPT ![r] =
                 IF m.result = "returned" /\ m.value # "undefined"
                 THEN res_json(q, 200, DownstreamResponse(m.value).data)
                 ELSE IF m.result = "threw" /\ HasResponse(m.value)
                 THEN res_json(q, DownstreamResponse(m.value).status,
                               DownstreamResponse(m.value).data)
                 ELSE res_json(q, 500, Unavailable(q.userId))] IN
       req' = IF exits THEN processExit(answered, r) ELSE answered
    /\ UNCHANGED <<orders, cache, cacheUp, breaker, calls, productUp, userUp>>

\* res.setTimeout(30000, () => res.status(408).json({error: 'Request timeout'}))
requestTimeout(r) ==
    /\ req[r].kind = "makeRequest" /\ req[r].gw.route
    /\ req[r].pc = "axios"
    /\ Len(req[r].gw.sent) = 0
    /\ MaxElapsed(req[r].mr) >= responseTimeout
    /\ req' = [req EXCEPT ![r] = res_json(@, 408, [error |-> "Request timeout"])]
    /\ UNCHANGED <<orders, cache, cacheUp, breaker, calls, productUp, userUp>>

(***************************************************************************)
(* User service: authenticateToken with its token cache, and logout.       *)
(***************************************************************************)
JWT_CACHE_TTL == 300

\* `token:${token}`
TokenKey(token) == <<"token", token>>

\* jwt.verify(token, secret): the payload, or a throw
jwt_verify(token) ==
    IF token = "jwt-u1" THEN [threw |-> FALSE, userId |-> "u1"]
    ELSE [threw |-> TRUE, userId |-> ""]

AuthError(message) == [kind |-> message, product |-> "", available |-> 0, requested |-> 0]

\* up to the first await after cache.get has answered: 401 without a token,
\* next() on an entry with valid: true, else jwt.verify and on to cache.set
authenticateToken(r, token) ==
    /\ Free(r)
    /\ LET q == [IdleReq EXCEPT !.kind = "authenticateToken", !.auth.token = token]
           g == cache_get(TokenKey(token))
           decoded == jwt_verify(token) IN
       req' = [req EXCEPT ![r] =
                 IF token = "" THEN Finish(q, ErrorResp(401, AuthError("Access token required")))
                 ELSE IF ~g.null /\ g.value[1].valid
                 THEN [q EXCEPT !.pc = "done", !.userId = g.value[1].userId, !.auth.next = TRUE]
                 ELSE IF ~decoded.threw
                 THEN [q EXCEPT !.pc = "setValid", !.userId = decoded.userId,
                                !.auth.verifyCalls = @ + 1]
                 ELSE [q EXCEPT !.pc = "setInvalid", !.auth.verifyCalls = @ + 1]]
    /\ UNCHANGED <<orders, cache, cacheUp, breaker, calls, productUp, userUp>>

\* await cache.set(`token:${token}`, {userId, valid: true}, JWT_CACHE_TTL); next()
authenticateToken_setValid(r) ==
    /\ req[r].kind = "authenticateToken" /\ req[r].pc = "setValid"
    /\ cache' = cache_set(TokenKey(req[r].auth.token),
                          <<[userId |-> req[r].userId, valid |-> TRUE]>>, JWT_CACHE_TTL).store
    /\ req' = [req EXCEPT ![r] = [@ EXCEPT !.pc = "done", !.auth.next = TRUE]]
    /\ UNCHANGED <<orders, cacheUp, breaker, calls, productUp, userUp>>

\* catch: await cache.set(`token:${token}`, {valid: false}, 60); 403
authenticateToken_setInvalid(r) ==
    /\ req[r].kind = "authenticateToken" /\ req[r].pc = "setInvalid"
    /\ cache' = cache_set(TokenKey(req[r].auth.token), <<[valid |-> FALSE]>>, 60).store
    /\ req' = [req EXCEPT ![r] = Finish(@, ErrorResp(403, AuthError("Invalid token")))]
    /\ UNCHANGED <<orders, cacheUp, breaker, calls, productUp, userUp>>

\* logout: if (token) await cache.del(`token:${token}`); res.json({message})
logout(r, token) ==
    /\ Free(r)
    /\ cache' = IF token # "" THEN cache_del(TokenKey(token)).store ELSE cache
    /\ req' = [req EXCEPT ![r] =
                 Finish([IdleReq EXCEPT !.kind = "logout", !.auth.token = token],
                        DataResp(200, <<[message |-> "Logged out successfully"]>>, FALSE))]
    /\ UNCHANGED <<orders, cacheUp, breaker, calls, productUp, userUp>>

(***************************************************************************)
(* Environment of the breakers: the dependency, the resetTimeout timer and *)
(* the rolling window.                                                     *)
(***************************************************************************)
productServiceFails ==
    /\ productUp
    /\ productUp' = FALSE
    /\ UNCHANGED <<orders, cache, cacheUp, breaker, calls, userUp, req>>

productServiceRecovers ==
    /\ ~productUp
    /\ productUp' = TRUE
    /\ UNCHANGED <<orders, cache, cacheUp, breaker, calls, userUp, req>>

\* resetTimeout after 'open'.  Every call issued before the circuit opened
\* has settled or timed out by then (timeout < resetTimeout), and the
\* failures counted before it opened have left the rolling window, which
\* is shorter than resetTimeout - timeout.
halfOpen(name) ==
    /\ breaker[name].state = "open"
    /\ (timeout < resetTimeout) => InflightOf(name) = 0
    /\ breaker' = [breaker EXCEPT ![name] = [BreakerOnResetTimeout(@) EXCEPT !.failures = 0]]
    /\ UNCHANGED <<orders, cache, cacheUp, calls, productUp, userUp, req>>

\* the rolling window drops its oldest bucket: fires and failures counted
\* in it leave stats.  A call fails within timeout of its fire, so the
\* failures in the window exceed its fires by at most the calls in flight
\* across the window's edge.
rotateBucket(name) ==
    /\ \E df \in 0..1, dx \in 0..1 :
          /\ df + dx > 0
          /\ df <= breaker[name].fires - InflightOf(name)
          /\ dx <= breaker[name].failures
          /\ breaker[name].failures - dx <= breaker[name].fires - df + MaxInflight
          /\ breaker' = [breaker EXCEPT ![name] =
                            [@ EXCEPT !.fires = @ - df, !.failures = @ - dx]]
    /\ UNCHANGED <<orders, cache, cacheUp, calls, productUp, userUp, req>>

\* Redis becomes unreachable: every command rejects after its retries
cacheFails ==
    /\ cacheUp
    /\ cacheUp' = FALSE
    /\ UNCHANGED <<orders, cache, breaker, calls, productUp, userUp, req>>

cacheRecovers ==
    /\ ~cacheUp
    /\ cacheUp' = TRUE
    /\ UNCHANGED <<orders, cache, breaker, calls, productUp, userUp, req>>

\* the TTL given to SETEX elapses
expire(key) ==
    /\ key \in DOMAIN cache
    /\ cache' = Without(cache, {key})
    /\ UNCHANGED <<orders, cacheUp, breaker, calls, productUp, userUp, req>>

\* TickSeconds pass: every entry is that much closer to the end of the
\* time SETEX gave it, and Redis drops the entries whose time is over
tick ==
    /\ DOMAIN cache # {}
    /\ cache' = [k \in {key \in DOMAIN cache : cache[key].ttl > TickSeconds} |->
                   [cache[k] EXCEPT !.ttl = @ - TickSeconds]]
    /\ UNCHANGED <<orders, cacheUp, breaker, calls, productUp, userUp, req>>

(***************************************************************************)
(* Inputs.                                                                 *)
(***************************************************************************)
Line(p, n) == [productId |-> p, quantity |-> n]

Body(u, items) == [userId |-> u, isArray |-> TRUE, items |-> items]

CreateBodies ==
    { Body("u1", <<Line("p1", 2), Line("p2", 1)>>),
      Body("u1", <<Line("p2", 1), Line("p1", 3)>>),
      Body("u1", <<Line("p1", 1), Line("p9", 1)>>),
      Body("u1", <<Line("p2", 0)>>),
      Body("u1", <<>>),
      Body("", <<Line("p1", 1)>>),
      [userId |-> "u1", isArray |-> FALSE, items |-> <<>>] }

Init ==
    /\ orders = <<>>
    /\ cache = <<>>
    /\ cacheUp = TRUE
    /\ breaker = [name \in BreakerNames |-> BreakerInit]
    /\ calls = <<>>
    /\ productUp = TRUE
    /\ userUp = TRUE
    /\ req = [r \in Reqs |-> IdleReq]

\* the bounds of the model, kept inside every step they limit
OrdersWithin(n) ==
    Len(orders') + Cardinality({r \in Reqs : /\ req'[r].kind = "createOrder"
                                             /\ req'[r].pc \in {"validating", "save"}}) <= n

WithinBounds ==
    /\ OrdersWithin(MaxOrders)
    /\ \A name \in BreakerNames :
          /\ breaker'[name].fires <= MaxFires
          /\ Cardinality({k \in 1..Len(calls') : calls'[k].b = name}) <= MaxInflight

NextCreate ==
    \/ \E body \in CreateBodies : createOrder(1, body) /\ WithinBounds
    \/ \E k \in 1..Len(calls), o \in {"ok", "ENOTFOUND404", "ECONNREFUSED", "ETIMEDOUT"} :
          getProductFn(k, o)
    \/ \E r \in Reqs : createOrder_save(r)
    \/ \E r \in Reqs : createOrder_invalidateUser(r)
    \/ \E r \in Reqs : createOrder_invalidateAll(r)
    \/ productServiceFails
    \/ productServiceRecovers
    \/ halfOpen(ProductBreakerName)
    \/ rotateBucket(ProductBreakerName)

SpecCreate == Init /\ [][NextCreate]_vars

(***************************************************************************)
(* validateUser: the user-service call behind userServiceBreaker.  Its     *)
(* boolean result goes back to the caller and leaves no state.             *)
(***************************************************************************)
validateUser(userId) ==
    /\ LET b1 == BreakerCountFire(breaker[UserBreakerName]) IN
       /\ IF BreakerAdmits(b1)
          THEN /\ breaker' = [breaker EXCEPT ![UserBreakerName] = BreakerEnter(b1)]
               /\ calls' = Append(calls, [b |-> UserBreakerName, r |-> 0, i |-> 0, arg |-> userId])
          ELSE /\ breaker' = [breaker EXCEPT ![UserBreakerName] = b1]
               /\ UNCHANGED calls
    /\ UNCHANGED <<orders, cache, cacheUp, productUp, userUp, req>>

\* GET /auth/profile settles: 200, or an error (axios rejects other statuses)
validateUserFn(k) ==
    /\ k \in 1..Len(calls)
    /\ calls[k].b = UserBreakerName
    /\ breaker' = [breaker EXCEPT ![calls[k].b] =
                     IF userUp THEN BreakerOnSuccess(@) ELSE BreakerOnFailure(@)]
    /\ calls' = RemoveAt(calls, k)
    /\ UNCHANGED <<orders, cache, cacheUp, productUp, userUp, req>>

userServiceFails ==
    /\ userUp
    /\ userUp' = FALSE
    /\ UNCHANGED <<orders, cache, cacheUp, breaker, calls, productUp, req>>

userServiceRecovers ==
    /\ ~userUp
    /\ userUp' = TRUE
    /\ UNCHANGED <<orders, cache, cacheUp, breaker, calls, productUp, req>>

\* requests that exercise the product breaker without saving an order
BreakerBodies ==
    { Body("u1", <<Line("p9", 1)>>),
      Body("u1", <<Line("p1", 3)>>) }

NextBreakers ==
    \/ \E body \in BreakerBodies : createOrder(1, body) /\ WithinBounds
    \/ \E k \in 1..Len(calls), o \in {"ok", "ENOTFOUND404"} : getProductFn(k, o)
    \/ \E u \in {"u1"} : validateUser(u) /\ WithinBounds
    \/ \E k \in 1..Len(calls) : validateUserFn(k)
    \/ userServiceFails
    \/ userServiceRecovers
    \/ \E name \in BreakerNames : halfOpen(name)

SpecBreakers == Init /\ [][NextBreakers]_vars

(***************************************************************************)
(* Requests handled one at a time, over a cache that can fail: every       *)
(* handler of the order service.                                           *)
(***************************************************************************)
SeqBodies ==
    { Body("u1", <<Line("p1", 2), Line("p2", 1)>>),
      Body("", <<Line("p1", 1)>>),
      Body("u1", <<>>),
      [userId |-> "u2", isArray |-> FALSE, items |-> <<>>] }

SeqIds == 1..(MaxSeqOrders + 1)

\* a status of the set, one outside it, and no status in the body
SeqStatuses == validStatuses \cup {"refunded", ""}

NoParams == <<>>

NextSeq ==
    \/ \E body \in SeqBodies : createOrder(1, body) /\ OrdersWithin(MaxSeqOrders)
    \/ \E k \in 1..Len(calls) : getProductFn(k, "ok")
    \/ createOrder_save(1)
    \/ createOrder_invalidateUser(1)
    \/ createOrder_invalidateAll(1)
    \/ \E id \in SeqIds : getOrderById(1, id)
    \/ getOrderById_find(1)
    \/ getOrderById_set(1)
    \/ \E id \in SeqIds : getOrderItems(1, id)
    \/ getOrderItems_find(1)
    \/ getOrderItems_set(1)
    \/ getAllOrders(1, NoParams)
    \/ getAllOrders_find(1)
    \/ getAllOrders_set(1)
    \/ getOrdersByUser(1, "u1", NoParams)
    \/ getOrdersByUser_find(1)
    \/ getOrdersByUser_set(1)
    \/ \E id \in SeqIds, status \in SeqStatuses : updateOrderStatus(1, id, status)
    \/ \E id \in SeqIds : cancelOrder(1, id)
    \/ cancelOrder_save(1)
    \/ statusChange_delOrder(1)
    \/ statusChange_delUser(1)
    \/ statusChange_delAll(1)
    \/ cacheFails
    \/ cacheRecovers
    \/ \E key \in DOMAIN cache : expire(key)

SpecSeq == Init /\ [][NextSeq]_vars

(***************************************************************************)
(* The invalidation taken command by command, one request at a time.       *)
(***************************************************************************)
ScanQueries == {NoParams, [status |-> "pending"], [userId |-> "all"], [limit |-> 500]}

NextScan ==
    \/ createOrder(1, Body("u1", <<Line("p2", 1)>>)) /\ OrdersWithin(MaxSeqOrders)
    \/ \E k \in 1..Len(calls) : getProductFn(k, "ok")
    \/ createOrder_save(1)
    \/ createOrder_invalidateUser(1)
    \/ updateOrderStatus(1, 1, "shipped")
    \/ statusChange_delOrder(1)
    \/ statusChange_delUser(1)
    \/ \E reply \in SUBSET DOMAIN cache, newCursor \in {"0", "17"} :
          delPattern_scan(1, reply, newCursor)
    \/ delPattern_del(1)
    \/ getOrdersByUser(1, "u1", NoParams)
    \/ getOrdersByUser_find(1)
    \/ getOrdersByUser_set(1)
    \/ \E query \in ScanQueries : getAllOrders(1, query)
    \/ getAllOrders_find(1)
    \/ getAllOrders_set(1)
    \/ cacheFails
    \/ cacheRecovers
    \/ \E key \in DOMAIN cache : expire(key)

SpecScan == Init /\ [][NextScan]_vars

(***************************************************************************)
(* Gateway calls to the user and product services.  Every axios call       *)
(* settles (response, error or timeout) and every timer fires.             *)
(***************************************************************************)
RetryArgs == 0..defaultRetries

NextGateway ==
    \/ \E r \in Reqs, service \in {"user", "product"}, retries \in RetryArgs :
          makeRequest(r, service, retries)
    \/ \E r \in Reqs, o \in {"200", "400", "ECONNREFUSED", "ECONNABORTED"} :
          makeRequest_axios(r, o)
    \/ \E r \in Reqs : makeRequest_backoff(r)
    \/ userServiceFails
    \/ userServiceRecovers
    \/ productServiceFails
    \/ productServiceRecovers

SpecGateway == Init /\ [][NextGateway]_vars

SpecGatewayFair ==
    /\ SpecGateway
    /\ \A r \in Reqs :
          /\ WF_vars(\E o \in {"200", "400", "ECONNREFUSED", "ECONNABORTED"} :
                        makeRequest_axios(r, o))
          /\ WF_vars(makeRequest_backoff(r))

(***************************************************************************)
(* Gateway routes: requests proxied to the user and product services.      *)
(***************************************************************************)
NextRoute ==
    \/ \E r \in Reqs, service \in {"user", "product"} : gatewayRoute(r, service)
    \/ \E r \in Reqs, o \in {"200", "400", "ECONNREFUSED", "ECONNABORTED"} :
          makeRequest_axios(r, o)
    \/ \E r \in Reqs : makeRequest_backoff(r)
    \/ \E r \in Reqs, exits \in BOOLEAN : gatewayRoute_respond(r, exits)
    \/ \E r \in Reqs : requestTimeout(r)
    \/ userServiceFails
    \/ userServiceRecovers
    \/ productServiceFails
    \/ productServiceRecovers

SpecRoute == Init /\ [][NextRoute]_vars

(***************************************************************************)
(* Concurrent creation and status changes.                                 *)
(***************************************************************************)
OrderBodies ==
    { Body("u1", <<Line("p1", 2), Line("p2", 1)>>),
      Body("u2", <<Line("p2", 1)>>),
      Body("u2", <<Line("p2", 1), Line("p2", 1)>>) }

OrderIds == 1..MaxOrders

NewStatuses == {"confirmed", "shipped"}

Next ==
    \/ \E r \in Reqs, body \in OrderBodies : createOrder(r, body) /\ WithinBounds
    \/ \E k \in 1..Len(calls) : getProductFn(k, "ok")
    \/ \E r \in Reqs : createOrder_save(r)
    \/ \E r \in Reqs : createOrder_invalidateUser(r)
    \/ \E r \in Reqs : createOrder_invalidateAll(r)
    \/ \E r \in Reqs, id \in OrderIds, status \in NewStatuses : updateOrderStatus(r, id, status)
    \/ \E r \in Reqs, id \in OrderIds : cancelOrder(r, id)
    \/ \E r \in Reqs : cancelOrder_save(r)
    \/ \E r \in Reqs : statusChange_delOrder(r)
    \/ \E r \in Reqs : statusChange_delUser(r)
    \/ \E r \in Reqs : statusChange_delAll(r)

Spec == Init /\ [][Next]_vars

(***************************************************************************)
(* Reads of one order racing with its status changes, with time passing.   *)
(* The status moves towards shipped and is not written after that.         *)
(***************************************************************************)
NextStale ==
    \/ createOrder(1, Body("u1", <<Line("p2", 1)>>)) /\ OrdersWithin(MaxSeqOrders)
    \/ \E k \in 1..Len(calls) : getProductFn(k, "ok")
    \/ createOrder_save(1)
    \/ createOrder_invalidateUser(1)
    \/ createOrder_invalidateAll(1)
    \/ \E r \in Reqs : getOrderById(r, 1)
    \/ \E r \in Reqs : getOrderById_find(r)
    \/ \E r \in Reqs : getOrderById_set(r)
    \/ \E r \in Reqs, status \in NewStatuses :
          /\ Len(orders) >= 1 /\ orders[1].status # "shipped"
          /\ updateOrderStatus(r, 1, status)
    \/ \E r \in Reqs : statusChange_delOrder(r)
    \/ \E r \in Reqs : statusChange_delUser(r)
    \/ \E r \in Reqs : statusChange_delAll(r)
    \/ cacheFails
    \/ cacheRecovers
    \/ tick

SpecStale == Init /\ [][NextStale]_vars

\* every handler goes on to its next await, and time passes
SpecStaleFair ==
    /\ SpecStale
    /\ \A r \in Reqs :
          /\ WF_vars(getOrderById_find(r))
          /\ WF_vars(getOrderById_set(r))
          /\ WF_vars(statusChange_delOrder(r))
          /\ WF_vars(statusChange_delUser(r))
          /\ WF_vars(statusChange_delAll(r))
    /\ WF_vars(tick)

(***************************************************************************)
(* Requests to the user service with a bearer token: a valid JWT of u1, a  *)
(* string that does not verify, or none.                                   *)
(***************************************************************************)
Tokens == {"", "jwt-u1", "garbage"}

NextAuth ==
    \/ \E r \in Reqs, token \in Tokens : authenticateToken(r, token)
    \/ \E r \in Reqs : authenticateToken_setValid(r)
    \/ \E r \in Reqs : authenticateToken_setInvalid(r)
    \/ \E r \in Reqs, token \in Tokens : logout(r, token)
    \/ cacheFails
    \/ cacheRecovers
    \/ tick

SpecAuth == Init /\ [][NextAuth]_vars

(***************************************************************************)
(* Properties of order creation (checked under SpecCreate).                *)
(***************************************************************************)
PB == breaker["productService"]

UB == breaker["userService"]

ProductCalls(cs) == SelectSeq(cs, LAMBDA c : c.b = "productService")

UserCalls(cs) == SelectSeq(cs, LAMBDA c : c.b = "userService")

Done(r, kind) == req[r].kind = kind /\ req[r].pc = "done"

\* what the product service holds for line j of request q
LineAvailable(q, j) ==
    /\ q.items[j].productId \in ProductIds
    /\ Catalog[q.items[j].productId].stock >= q.items[j].quantity

\* C1: a createOrder request with a failed line (fetch failed, or the stock
\* is below the requested quantity) answers without having saved an order,
\* and the Order collection changes only by the save of a request whose
\* every line was fetched and has enough stock.
C1_AllOrNothing ==
    /\ [](\A r \in Reqs :
            (Done(r, "createOrder") /\
             (AnyLineFailed(req[r]) \/ \E j \in 1..Len(req[r].lines) : ~LineAvailable(req[r], j)))
            => (req[r].doc = <<>> /\ req[r].resp.status # 201))
    /\ [][orders' # orders =>
            \E r \in Reqs :
               /\ req[r].kind = "createOrder" /\ req[r].pc = "save"
               /\ Len(req[r].lines) = Len(req[r].items)
               /\ \A j \in 1..Len(req[r].items) :
                     req[r].lines[j].st = "ok" /\ LineAvailable(req[r], j)
               /\ Len(orders') = Len(orders) + 1
               /\ SubSeq(orders', 1, Len(orders)) = orders]_vars

\* a request failed on one line after another line had validated, with an
\* earlier order in the collection
C1_Witness ==
    \E r \in Reqs :
       /\ Done(r, "createOrder")
       /\ \E j \in 1..Len(req[r].lines) : req[r].lines[j].st = "failed"
       /\ \E j \in 1..Len(req[r].lines) : req[r].lines[j].st = "ok"
       /\ Len(orders) = 1

\* C4: a line asking for more than the stock is answered 400 with an error
\* naming the product, and nothing is saved.
C4_InsufficientStock400 ==
    \A r \in Reqs :
       (Done(r, "createOrder") /\
        \E j \in 1..Len(req[r].lines) :
           /\ req[r].items[j].productId \in ProductIds
           /\ req[r].lines[j].st = "failed" /\ req[r].lines[j].cause = "none")
       => /\ req[r].resp.status = 400
          /\ req[r].resp.error.kind = "Insufficient stock"
          /\ req[r].doc = <<>>

\* C5: a fetch that failed because the dependency was unreachable, timed
\* out or the breaker was open reaches the client as that error, not as
\* "Product not found".
C5_ErrorSurfacedUnchanged ==
    \A r \in Reqs :
       Done(r, "createOrder") =>
          \A j \in 1..Len(req[r].lines) :
             req[r].lines[j].cause \in {"ECONNREFUSED", "ETIMEDOUT", "EOPENBREAKER"}
             => req[r].resp.error.kind = req[r].lines[j].cause

\* C6: once the window holds at least volumeThreshold fires of which at
\* least errorThresholdPercentage percent failed, the circuit is open (or
\* its cool-down has elapsed), and while it is open a fired call issues no
\* HTTP request.
C6_OpenAtThreshold ==
    /\ []((PB.fires >= volumeThreshold /\
           PB.failures * 100 >= errorThresholdPercentage * PB.fires)
          => PB.state \in {"open", "halfOpen"})
    /\ [][PB.state = "open" => Len(ProductCalls(calls')) <= Len(ProductCalls(calls))]_vars

\* C8: the circuit moves only closed->open, open->halfOpen, halfOpen->closed
\* and halfOpen->open; a failed probe re-opens it.
BreakerTransitions ==
    {<<"closed", "open">>, <<"open", "halfOpen">>, <<"halfOpen", "closed">>,
     <<"halfOpen", "open">>}

C8_BreakerTransitions ==
    [][/\ \A name \in BreakerNames :
             breaker'[name].state # breaker[name].state
             => <<breaker[name].state, breaker'[name].state>> \in BreakerTransitions
       /\ (PB.state = "halfOpen" /\ breaker'["productService"].failures > PB.failures)
             => breaker'["productService"].state = "open"]_vars

\* the circuit has re-opened on a failed probe
C8_Witness ==
    /\ PB.state = "open"
    /\ PB.fires < volumeThreshold
    /\ PB.failures > 0

(***************************************************************************)
(* Cool-down and probe.  Node's timers fire and every HTTP request settles *)
(* (axios and the breaker both time out after 5 s).                        *)
(***************************************************************************)
SpecCreateFair ==
    /\ SpecCreate
    /\ WF_vars(halfOpen(ProductBreakerName))
    /\ WF_vars(\E k \in 1..Len(calls), o \in {"ok", "ENOTFOUND404", "ECONNREFUSED", "ETIMEDOUT"} :
                  getProductFn(k, o))

ProbeInFlight ==
    /\ PB.state = "halfOpen" /\ ~PB.pendingClose
    /\ Len(ProductCalls(calls)) = 1

\* C7: an open circuit becomes half-open when the cool-down has elapsed
\* (it does not stay open), the first call fired in half-open is issued as
\* the probe, a probe that succeeds closes the circuit, and a probe sent
\* to a recovered dependency leads to the closed circuit.
C7_CoolDownProbeClose ==
    /\ (PB.state = "open") ~> (PB.state = "halfOpen")
    /\ [][(PB.state = "halfOpen" /\ PB.pendingClose /\
           breaker'["productService"].fires > PB.fires)
          => Len(ProductCalls(calls')) > Len(ProductCalls(calls))]_vars
    /\ [][(ProbeInFlight /\ Len(ProductCalls(calls')) = 0 /\
           breaker'["productService"].failures = PB.failures)
          => breaker'["productService"].state = "closed"]_vars
    /\ (ProbeInFlight /\ productUp /\ ProductCalls(calls)[1].arg \in ProductIds)
          ~> (PB.state = "closed" \/ ~productUp)

\* the probe of a half-open circuit is in flight to the recovered service
C7_Witness ==
    /\ ProbeInFlight
    /\ productUp
    /\ ProductCalls(calls)[1].arg \in ProductIds

\* C9: a step of a product fetch (createOrder, a product call issued or
\* settled) leaves the user-service breaker as it is, and a step of a user
\* validation leaves the product-service breaker and the requests as they
\* are.
C9_BreakerIsolation ==
    [][/\ (req' # req \/ ProductCalls(calls') # ProductCalls(calls))
            => breaker'["userService"] = UB
       /\ (UserCalls(calls') # UserCalls(calls) \/ breaker'["userService"] # UB)
            => (breaker'["productService"] = PB /\ req' = req)]_vars

\* the product circuit has opened while the user circuit, used once, is
\* closed with no failure counted; and the converse
C9_Witness ==
    \/ /\ PB.state = "open" /\ PB.failures >= volumeThreshold
       /\ UB = [state |-> "closed", pendingClose |-> FALSE, fires |-> 1, failures |-> 0]
    \/ /\ UB.state = "open" /\ UB.failures >= volumeThreshold
       /\ PB = [state |-> "closed", pendingClose |-> FALSE, fires |-> 1, failures |-> 0]

(***************************************************************************)
(* Properties of the stored orders (checked under Spec).                   *)
(***************************************************************************)
LineItemsSum(items) == Sum([j \in 1..Len(items) |-> items[j].quantity * items[j].price], Len(items))

\* C2: every persisted order's totalAmount is the sum over its stored line
\* items of quantity x price, and no step (updateOrderStatus and cancelOrder
\* among them) changes the items or the totalAmount of a stored order.
C2_TotalAmount ==
    /\ [](\A j \in 1..Len(orders) : orders[j].totalAmount = LineItemsSum(orders[j].items))
    /\ [][\A j \in 1..Len(orders) :
             /\ orders'[j].items = orders[j].items
             /\ orders'[j].totalAmount = orders[j].totalAmount]_vars

\* a two-line order was cancelled and then moved to confirmed by an update
C2_Witness ==
    \E r \in Reqs :
       /\ Done(r, "cancelOrder") /\ req[r].resp.status = 200
       /\ req[r].doc[1].status = "cancelled"
       /\ Len(orders[req[r].id].items) = 2
       /\ orders[req[r].id].status = "confirmed"
       /\ orders[req[r].id].totalAmount = 27

(***************************************************************************)
(* Properties of requests run one at a time (checked under SpecSeq).       *)
(***************************************************************************)
CancelBegins(id) ==
    /\ Free(1) /\ req' # req
    /\ req'[1].kind = "cancelOrder" /\ req'[1].id = id

CancelInProgress == req[1].kind = "cancelOrder" /\ req[1].pc # "done"

MissAnswer(q) ==
    LET known == q.id \in 1..Len(orders)
        byUser(o) == o.userId = q.userId
        page == findPage(SelectSeq(Reverse(orders), byUser), 1, 20) IN
    CASE q.kind = "createOrder" ->
           DataResp(201, <<Json(orders[Len(orders)])>>, FALSE)
      [] q.kind \in {"updateOrderStatus", "cancelOrder"} ->
           DataResp(200, <<Json(orders[q.id])>>, FALSE)
      [] q.kind = "getOrderById" ->
           IF known THEN DataResp(200, <<Json(orders[q.id])>>, FALSE)
                    ELSE ErrorResp(404, OrderNotFound)
      [] q.kind = "getOrderItems" ->
           IF known THEN DataResp(200, orders[q.id].items, FALSE)
                    ELSE ErrorResp(404, OrderNotFound)
      [] q.kind = "getAllOrders" ->
           DataResp(200, <<JsonResult(findPage(Reverse(orders), 1, 20))>>, FALSE)
      [] q.kind = "getOrdersByUser" ->
           DataResp(200, <<JsonResult([orders |-> page.orders, userId |-> q.userId,
                                       pagination |-> page.pagination])>>, FALSE)

HandlerKinds ==
    {"createOrder", "getAllOrders", "getOrdersByUser", "getOrderById",
     "updateOrderStatus", "cancelOrder", "getOrderItems"}

\* C10: with the store failing, get returns null, set and del return false
\* and delPattern returns 0, none raising and none changing the keyspace;
\* and a handler whose cache commands failed answers what it answers when
\* they work and the lookup misses, which is never a 500.
C10_CacheDownIsMiss ==
    /\ ~cacheUp =>
          \A key \in DOMAIN cache \cup {OrderKey(1)} :
             /\ cache_get(key) = [threw |-> FALSE, null |-> TRUE, value |-> <<>>]
             /\ cache_set(key, <<>>, 60) = [threw |-> FALSE, ret |-> FALSE, store |-> cache]
             /\ cache_del(key) = [threw |-> FALSE, ret |-> FALSE, store |-> cache]
             /\ cache_delPattern(AllOrdersPattern) = [threw |-> FALSE, ret |-> 0, store |-> cache]
    /\ \A r \in Reqs :
          (req[r].pc = "done" /\ req[r].kind \in HandlerKinds /\
           (req[r].cacheErr \/ req[r].cacheOk) /\ ~req[r].resp.cached)
          => /\ req[r].resp = MissAnswer(req[r])
             /\ req[r].resp.status # 500

\* an order was served from the collection while the failing cache held it
C10_Witness ==
    /\ Done(1, "getOrderById")
    /\ req[1].cacheErr /\ ~req[1].cacheOk
    /\ req[1].resp.status = 200
    /\ OrderKey(req[1].id) \in DOMAIN cache

(***************************************************************************)
(* Cache round trip (checked under SpecSeq).                               *)
(***************************************************************************)
\* key and data of the cache.set a read handler runs after its store read
StoreKey(q) ==
    CASE q.kind = "getOrderById" -> OrderKey(q.id)
      [] q.kind = "getOrderItems" -> OrderItemsKey(q.id)
      [] q.kind = "getAllOrders" -> AllOrdersKey(q.query)
      [] q.kind = "getOrdersByUser" -> UserOrdersPageKey(q.userId, q.query)

StoreData(q) == IF q.kind = "getOrderItems" THEN q.doc[1].items ELSE q.doc

\* a cache.set that reached the store
SetStep == req[1].pc = "set" /\ req'[1].pc = "done" /\ cacheUp

InvalidationPcs == {"invalidateUser", "invalidateAll", "delOrder", "delUser", "delAll"}

IsAllListingKey(k) == Len(k) > 2 /\ k[1] = "orders" /\ k[2] = "all"

InDelPattern == req[1].pc \in {"invalidateAll", "delAll"}

DelPatternReturns == InDelPattern /\ req'[1].pc = "done"

\* the matching keys present when the running call sent its first SCAN
BeganKeys ==
    IF req[1].scan.calls = 0 THEN {k \in DOMAIN cache : IsAllListingKey(k)}
                             ELSE req[1].scan.began

\* C12 (as the code has it): a delPattern call whose SCAN and DEL commands
\* all succeed, with no other request running, returns the number of keys
\* it deleted and leaves none of the matching keys present at its start; a
\* call one of whose commands fails returns 0 and that command removes
\* nothing; and no step of a call removes or changes a key the glob does
\* not match.
C12_DelPatternWhenStoreWorks ==
    /\ [][(DelPatternReturns /\ ~req'[1].scan.failed) =>
             /\ \A k \in BeganKeys : k \notin DOMAIN cache'
             /\ req'[1].scan.ret = req'[1].scan.deletedCount]_vars
    /\ [][(DelPatternReturns /\ req'[1].scan.failed) =>
             /\ req'[1].scan.ret = 0
             /\ cache' = cache
             /\ req'[1].resp.status \in {200, 201}]_vars
    /\ [][(InDelPattern /\ req' # req) =>
             \A k \in DOMAIN cache :
                IF IsAllListingKey(k)
                THEN k \in DOMAIN cache' => cache'[k] = cache[k]
                ELSE k \in DOMAIN cache' /\ cache'[k] = cache[k]]_vars

\* C12 (as stated): when delPattern returns, no matching key present at its
\* start remains and every other key is present and unchanged.
C12_DelPatternRemovesAll ==
    [][DelPatternReturns =>
          /\ \A k \in BeganKeys : k \notin DOMAIN cache'
          /\ \A k \in DOMAIN cache :
                ~IsAllListingKey(k) => (k \in DOMAIN cache' /\ cache'[k] = cache[k])]_vars

\* a call deleted two listings in two SCAN replies and left a user listing
C12_Witness ==
    /\ req[1].pc = "done" /\ req[1].kind = "updateOrderStatus"
    /\ req[1].scan.calls = 2 /\ req[1].scan.deletedCount = 2 /\ ~req[1].scan.failed
    /\ DOMAIN cache = {UserOrdersPageKey("u1", NoParams)}

(***************************************************************************)
(* Invalidation by the writing handlers (checked under SpecSeq).           *)
(***************************************************************************)
\* a listing of user u as getOrdersByUser writes it
IsUserListingKey(k, u) == Len(k) = 5 /\ k[1] = "orders" /\ k[2] = "user" /\ k[3] = u

\* the request in slot 1 ran all its cache commands against a working store
CacheAvailable == req[1].cacheOk /\ ~req[1].cacheErr

\* C13: when updateOrderStatus or cancelOrder has answered 200 with the
\* cache available, the cache holds no order:<id> entry, no
\* orders:user:<U>:<page>:<limit> entry of the owner and no orders:all entry.
C13_StatusChangeInvalidates ==
    (req[1].pc = "done" /\ req[1].kind \in {"updateOrderStatus", "cancelOrder"} /\
     req[1].resp.status = 200 /\ CacheAvailable)
    => \A k \in DOMAIN cache :
          /\ k # OrderKey(req[1].id)
          /\ ~IsUserListingKey(k, orders[req[1].id].userId)
          /\ ~IsAllListingKey(k)

\* C14: when createOrder has answered 201 with the cache available, the
\* cache holds no orders:user:<U>:<page>:<limit> entry of that user and no
\* orders:all entry, so the next listing comes from the store.
C14_CreateInvalidates ==
    (Done(1, "createOrder") /\ req[1].resp.status = 201 /\ CacheAvailable)
    => \A k \in DOMAIN cache :
          ~IsUserListingKey(k, req[1].userId) /\ ~IsAllListingKey(k)

(***************************************************************************)
(* Status values (checked under SpecSeq).                                  *)
(***************************************************************************)
FiveStatuses == {"pending", "confirmed", "shipped", "delivered", "cancelled"}

UpdateBegins ==
    Free(1) /\ req' # req /\ req'[1].kind = "updateOrderStatus"

UpdateInProgress == req[1].kind = "updateOrderStatus" /\ req[1].pc # "done"

\* C16: updateOrderStatus of an existing order with any of the five
\* statuses writes that status to the order, whatever the current one, and
\* leaves every other field and order alone; the request then goes through
\* its invalidations and answers 200 with the updated order.
C16_PermissiveUpdate ==
    /\ [][(UpdateBegins /\ req'[1].status \in FiveStatuses /\ req'[1].id \in 1..Len(orders)) =>
             /\ orders' = [orders EXCEPT ![req'[1].id].status = req'[1].status]
             /\ req'[1].pc # "done"]_vars
    /\ [][(UpdateInProgress /\ req'[1].pc = "done") =>
             /\ req'[1].resp.status = 200
             /\ req'[1].resp.data = <<Json(orders[req[1].id])>>
             /\ req'[1].resp.data[1].status = req[1].status]_vars

\* a delivered order (still cached as delivered) was set back to pending
C16_Witness ==
    /\ Done(1, "updateOrderStatus") /\ req[1].resp.status = 200
    /\ req[1].status = "pending" /\ orders[req[1].id].status = "pending"
    /\ OrderKey(req[1].id) \in DOMAIN cache
    /\ cache[OrderKey(req[1].id)].json[1].status = "delivered"

\* C17: an order becomes cancelled only from pending or confirmed, and a
\* cancelled order keeps that status.
C17_CancelledTerminal ==
    [][\A j \in 1..Len(orders) :
          /\ (orders'[j].status = "cancelled" /\ orders[j].status # "cancelled")
                => orders[j].status \in {"pending", "confirmed"}
          /\ orders[j].status = "cancelled" => orders'[j].status = "cancelled"]_vars

(***************************************************************************)
(* Validated items and rejected bodies (checked under SpecCreate).         *)
(***************************************************************************)
\* the validated item that input line j of request q must give
ExpectedItem(q, j) ==
    [productId |-> q.items[j].productId,
     productName |-> Catalog[q.items[j].productId].name,
     quantity |-> q.items[j].quantity,
     price |-> Catalog[q.items[j].productId].price]

\* C18: whatever the order in which the fetches complete, a line that has
\* validated holds the item of its own input line, and the items handed to
\* the Order (validateProductsParallel's result) are one per input line, the
\* i-th made of the i-th line's productId and quantity and the name and
\* price fetched for it.
C18_InputOrderKept ==
    \A r \in Reqs :
       req[r].kind = "createOrder" =>
          /\ \A j \in 1..Len(req[r].lines) :
                req[r].lines[j].st = "ok" => req[r].lines[j].item = ExpectedItem(req[r], j)
          /\ req[r].doc # <<>> =>
                /\ Len(req[r].doc[1].items) = Len(req[r].items)
                /\ \A j \in 1..Len(req[r].items) :
                      req[r].doc[1].items[j] = ExpectedItem(req[r], j)

\* an order of two different lines was stored and answered
C18_Witness ==
    /\ Done(1, "createOrder") /\ req[1].resp.status = 201
    /\ Len(req[1].items) = 2
    /\ req[1].items[1].productId # req[1].items[2].productId
    /\ req[1].doc[1].items[2].productId = "p2"

(***************************************************************************)
(* Rejected bodies (checked under SpecSeq).                                *)
(***************************************************************************)
CreateBegins == Free(1) /\ req' # req /\ req'[1].kind = "createOrder"

\* C19: createOrder whose body has no userId, or no items, items that are
\* not an array or an empty array, answers 400 and changes neither the
\* breakers, the calls in flight, the orders nor the cache; a request that
\* goes on to validation has a userId and at least one line.
C19_InvalidBodyRejected ==
    /\ [][(CreateBegins /\ (req'[1].userId = "" \/ Len(req'[1].items) = 0)) =>
             /\ req'[1].pc = "done" /\ req'[1].resp.status = 400
             /\ req'[1].doc = <<>>
             /\ breaker' = breaker /\ calls' = calls
             /\ orders' = orders /\ cache' = cache]_vars
    /\ [](\A r \in Reqs :
            (req[r].kind = "createOrder" /\ req[r].pc # "done")
            => (req[r].userId # "" /\ Len(req[r].items) > 0))
    /\ [][(breaker' # breaker \/ Len(calls') > Len(calls)) =>
             \E r \in Reqs : Len(req'[r].items) > 0 /\ req'[r].userId # ""]_vars

\* an empty items array was refused after an order had been created and
\* listings cached
C19_Witness ==
    /\ Done(1, "createOrder") /\ req[1].resp.status = 400
    /\ req[1].userId = "u1" /\ req[1].items = <<>>
    /\ PB.fires = 2 /\ Len(orders) = 1
    /\ \E k \in DOMAIN cache : IsAllListingKey(k)
    /\ \E k \in DOMAIN cache : IsUserListingKey(k, "u1")

(***************************************************************************)
(* Retry budget of the gateway (checked under SpecGatewayFair).            *)
(***************************************************************************)
MakeRequests == {r \in Reqs : req[r].kind = "makeRequest"}

\* C20: a makeRequest call issues at most retries + 1 axios calls (3 by
\* default), one more only after a failed one and a wait of 100 ms, then
\* 200 ms; it returns the first 2xx response and issues nothing after it;
\* it throws the error of attempt number retries, having issued retries + 1
\* calls; and every call ends.
C20_RetryBudget ==
    /\ [](\A r \in MakeRequests :
            LET m == req[r].mr IN
            /\ m.issued <= m.retries + 1
            /\ m.retries = 2 => m.issued <= 3
            /\ m.issued = m.attempt + 1
            /\ \A j \in 1..Len(m.waits) : m.waits[j] = <<100, 200>>[j]
            /\ Len(m.waits) = m.issued - 1
            /\ req[r].pc = "done" =>
                  /\ m.result \in {"returned", "threw"}
                  /\ m.result = "returned" =>
                        (m.value = "200" /\ Len(m.errors) = m.issued - 1)
                  /\ m.result = "threw" =>
                        /\ m.issued = m.retries + 1
                        /\ Len(m.errors) = m.issued
                        /\ m.value = m.errors[m.issued])
    /\ [][\A r \in MakeRequests :
            (req'[r].kind = "makeRequest" /\ req'[r].mr.issued > req[r].mr.issued)
            => (req[r].pc = "backoff" /\ Len(req[r].mr.errors) = req[r].mr.issued)]_vars
    /\ \A r \in Reqs :
          (req[r].kind = "makeRequest" /\ req[r].pc # "done") ~> (req[r].pc = "done")

\* a call with the default budget threw the error of its third attempt
C20_Witness ==
    \E r \in Reqs :
       /\ req[r].kind = "makeRequest" /\ req[r].pc = "done"
       /\ req[r].mr.retries = 2 /\ req[r].mr.issued = 3
       /\ req[r].mr.waits = <<100, 200>>
       /\ req[r].mr.result = "threw"
       /\ req[r].mr.errors = <<"ECONNREFUSED", "400", "ECONNABORTED">>

(***************************************************************************)
(* Gateway routes (checked under SpecRoute).                               *)
(***************************************************************************)
Routes == {r \in Reqs : req[r].kind = "makeRequest" /\ req[r].gw.route}

\* C21: a request that the downstream service answered with 400 has been
\* sent downstream exactly once, and the client gets that 400 and its body.
C21_ValidationNotRetried ==
    \A r \in Routes :
       (\E j \in 1..Len(req[r].mr.errors) : req[r].mr.errors[j] = "400")
       => /\ req[r].mr.issued = 1
          /\ req[r].pc = "done" =>
                req[r].gw.sent = <<[status |-> 400, body |-> <<"data", "400">>]>>

ListingParams(query) ==
    [userId |-> IF "userId" \in DOMAIN query THEN <<query.userId>> ELSE <<>>,
     status |-> IF "status" \in DOMAIN query THEN <<query.status>> ELSE <<>>,
     page |-> pageNumOf(query), limit |-> limitNumOf(query, 100)]

\* C22: getAllOrders requests with different userId filter (absent or
\* present), status filter, page or effective limit have different cache
\* keys, so that a listing served from the cache holds only orders of the
\* userId asked for; the effective limit is at most 100.
C22_ListingKeyInjective ==
    \A r \in Reqs :
       req[r].kind = "getAllOrders" =>
          /\ \A other \in ScanQueries :
                ListingParams(other) # ListingParams(req[r].query)
                => AllOrdersKey(other) # AllOrdersKey(req[r].query)
          /\ limitNumOf(req[r].query, 100) <= 100
          /\ (req[r].pc = "done" /\ req[r].resp.cached /\ "userId" \in DOMAIN req[r].query)
             => \A j \in 1..Len(req[r].resp.data[1].orders) :
                   req[r].resp.data[1].orders[j].userId = req[r].query.userId

(***************************************************************************)
(* Concurrent status changes (checked under Spec).                         *)
(***************************************************************************)
\* C24: whatever updateOrderStatus does meanwhile, the write of cancelOrder
\* replaces a status of pending or confirmed, never shipped or delivered.
C24_CancelOverwrites ==
    [][\A r \in Reqs :
         (req[r].kind = "cancelOrder" /\ req[r].pc = "save" /\ req'[r].pc # "save")
         => orders[req[r].id].status \in {"pending", "confirmed"}]_vars

(***************************************************************************)
(* Staleness of a cached order (checked under SpecStaleFair).              *)
(***************************************************************************)
StaleEntry(id) ==
    /\ OrderKey(id) \in DOMAIN cache
    /\ cache[OrderKey(id)].json[1].status # orders[id].status

StaleRead(r) ==
    /\ req[r].kind = "getOrderById" /\ req[r].pc = "set"
    /\ req[r].doc[1].status # orders[req[r].id].status

TimePasses == cache' # cache /\ req' = req /\ orders' = orders /\ cacheUp' = cacheUp

\* C23: an entry order:<id>, stale ones included, has at most 300 s to
\* live when written, loses the time that passes and is gone when its time
\* is over; and once the order is no longer written (it is shipped), from
\* some time on every getOrderById answers with the stored status.
C23_StalenessBounded ==
    /\ [](\A id \in SeqIds : OrderKey(id) \in DOMAIN cache =>
             (cache[OrderKey(id)].ttl > 0 /\ cache[OrderKey(id)].ttl <= 300))
    /\ [][\A r \in Reqs :
            (req[r].kind = "getOrderById" /\ req[r].pc = "set" /\ req'[r].pc = "done"
             /\ cacheUp)
            => cache'[OrderKey(req[r].id)].ttl = 300]_vars
    /\ [][TimePasses =>
            \A id \in SeqIds : OrderKey(id) \in DOMAIN cache =>
               IF cache[OrderKey(id)].ttl <= TickSeconds
               THEN OrderKey(id) \notin DOMAIN cache'
               ELSE cache'[OrderKey(id)] =
                       [cache[OrderKey(id)] EXCEPT !.ttl = @ - TickSeconds]]_vars
    /\ <>[]((Len(orders) >= 1 /\ orders[1].status = "shipped") =>
               (~StaleEntry(1) /\ \A r \in Reqs : ~StaleRead(r)))
    /\ <>[][\A r \in Reqs :
              (req'[r] # req[r] /\ req'[r].kind = "getOrderById" /\ req'[r].pc = "done"
               /\ req'[r].resp.status = 200 /\ Len(orders) >= 1
               /\ orders[1].status = "shipped")
              => req'[r].resp.data[1].status = "shipped"]_vars

\* a read that began before the update wrote its entry after the update's
\* invalidation, and another read was answered from that stale entry
C23_Witness ==
    \E r \in Reqs :
       /\ Len(orders) >= 1 /\ orders[1].status = "shipped"
       /\ StaleEntry(1)
       /\ req[r].kind = "getOrderById" /\ req[r].pc = "done" /\ req[r].resp.cached
       /\ req[r].resp.data[1].status # "shipped"
       /\ \A s \in Reqs : req[s].kind # "updateOrderStatus"

(***************************************************************************)
(* Stock (checked under Spec).                                             *)
(***************************************************************************)
RECURSIVE QuantityOf(_, _, _)
\* the quantity of product p over the first n lines of items
QuantityOf(items, p, n) ==
    IF n = 0 THEN 0
    ELSE QuantityOf(items, p, n - 1) + (IF items[n].productId = p THEN items[n].quantity ELSE 0)

RECURSIVE Committed(_, _)
\* the quantity of product p over the first n orders, cancelled ones left out
Committed(p, n) ==
    IF n = 0 THEN 0
    ELSE Committed(p, n - 1)
         + (IF orders[n].status = "cancelled" THEN 0
            ELSE QuantityOf(orders[n].items, p, Len(orders[n].items)))

\* C25: the quantities of a product over all persisted orders that are not
\* cancelled never exceed the stock of the product.
C25_NoOverselling ==
    \A p \in ProductIds : Committed(p, Len(orders)) <= Catalog[p].stock

\* C26: in every persisted order the quantity of a product, added over the
\* lines that name it, is at most the stock read when the order was
\* validated.
C26_PerProductAvailability ==
    \A n \in 1..Len(orders) : \A p \in ProductIds :
       QuantityOf(orders[n].items, p, Len(orders[n].items)) <= Catalog[p].stock

(***************************************************************************)
(* The parallel and the legacy validator (checked under SpecCreate).       *)
(***************************************************************************)
ItemLists == {body.items : body \in {b \in CreateBodies : ~InvalidBody(b)}}

SameOutcome(items) ==
    LET par == validateProductsParallel(PB, items)
        leg == validateProducts(PB, items, 1, <<>>) IN
    /\ par.ok = leg.ok
    /\ par.ok => par.items = leg.items

\* what the running createOrder does is what validateProductsParallel gives:
\* a call refused by the breaker fails the request at once, and the items
\* of a request about to save are the validated items
ParallelAsRun ==
    /\ [][(CreateBegins /\ req'[1].pc = "done" /\ req'[1].resp.status = 500)
          => ~validateProductsParallel(PB, req'[1].items).ok]_vars
    /\ [](\A r \in Reqs :
            (req[r].kind = "createOrder" /\ req[r].pc = "save")
            => validatedItemsOf(req[r]) =
                  [j \in 1..Len(req[r].items) |->
                     validatedItem(Catalog[req[r].items[j].productId], req[r].items[j])])

\* C27 as stated: started with the same breaker on the same items and
\* product service, the two validators both fail or both succeed, and then
\* return the same items in the same order.
C27_ValidatorsEquivalent ==
    \A items \in ItemLists : SameOutcome(items)

\* C27, amended: the same, when the breaker is closed or open at the start.
C27_EquivalentUnlessHalfOpen ==
    /\ [](\A items \in ItemLists : PB.state \in {"closed", "open"} => SameOutcome(items))
    /\ ParallelAsRun

\* a request of two lines passed the parallel validation, the breaker being
\* closed, and the legacy loop gives the same two items
C27_Witness ==
    /\ req[1].kind = "createOrder" /\ req[1].pc = "save"
    /\ Len(req[1].items) = 2
    /\ PB.state = "closed" /\ productUp
    /\ validateProducts(PB, req[1].items, 1, <<>>).ok
    /\ validateProducts(PB, req[1].items, 1, <<>>).items = validatedItemsOf(req[1])

(***************************************************************************)
(* Tokens (checked under SpecAuth).                                        *)
(***************************************************************************)
AuthBegins(r) == Free(r) /\ req'[r] # req[r] /\ req'[r].kind = "authenticateToken"

\* on its way to next(): verified, with only the cache.set left
Admitted(q) == q.auth.next \/ q.pc = "setValid"

\* C28: a request that arrives with token T after a logout with T has
\* completed is rejected by authenticateToken; next() is not called for it.
C28_LogoutInvalidates ==
    [][\A r \in Reqs :
         (/\ AuthBegins(r)
          /\ \E s \in Reqs : /\ Done(s, "logout") /\ req[s].auth.token # ""
                             /\ req[s].auth.token = req'[r].auth.token)
         => ~Admitted(req'[r])]_vars

\* C29: with {valid: false} cached for the token, authenticateToken answers
\* 403 without calling jwt.verify; next() is called only for a token cached
\* as valid or that verifies; without a token the answer is 401.
C29_NegativeCacheServed ==
    /\ [][\A r \in Reqs :
            (/\ AuthBegins(r) /\ cacheUp
             /\ TokenKey(req'[r].auth.token) \in DOMAIN cache
             /\ ~cache[TokenKey(req'[r].auth.token)].json[1].valid)
            => /\ req'[r].auth.verifyCalls = 0
               /\ req'[r].pc = "done" /\ req'[r].resp.status = 403]_vars
    /\ [](\A r \in Reqs :
            (req[r].kind = "authenticateToken" /\ req[r].auth.next)
            => req[r].auth.token = "jwt-u1")
    /\ [](\A r \in Reqs :
            (Done(r, "authenticateToken") /\ req[r].auth.token = "")
            => (req[r].resp.status = 401 /\ ~req[r].auth.next))

====
